---- MODULE Spec2Model ----
(***************************************************************************)
(* A model of sqlite_web.py: the request handlers that change a table's    *)
(* structure (add/drop/rename column, add/drop index), the handlers that   *)
(* read the cached per-table model next to the live catalog (table_content,*)
(* table_export), the pagination arithmetic of table_content, the          *)
(* validation loop of table_insert, the row handlers table_update and      *)
(* table_delete with the primary-key tokens of encode_pk / decode_pk, the  *)
(* validator minimal_validate_field, view_operations, _query_view, the     *)
(* equality filter of table_content, and the registry of open datasets     *)
(* with its lock.  Each part has a specification of its own over the       *)
(* shared variables; the variables a part does not use stay unchanged.     *)
(*                                                                         *)
(* One table is modelled.  `catalog` is the live schema the engine holds,  *)
(* `cache` is dataset._models[table] (the generated model class).  Each    *)
(* request runs on its own thread; one step of the model is one access of  *)
(* a handler to the shared dataset (a catalog read, a DDL statement, a     *)
(* cache read, update_cache), so handlers of different requests interleave *)
(* between those accesses, as threads of the WSGI server do.  A request's   *)
(* record keeps the inputs its handler has consulted on the path it took   *)
(* and the locals that are still live.                                     *)
(***************************************************************************)
EXTENDS Integers, Sequences, FiniteSets, TLC

VARIABLES
    catalog,   \* live schema of the table: [cols, idx]
    cache,     \* dataset._models[table]: the schema as of the last update_cache
    req,       \* per request thread: handler, inputs, position, locals, outcome
    unrefreshed, \* request threads that committed DDL no update_cache has followed
    pg,        \* table_content pagination: inputs and computed page values
    ins,       \* table_insert: form, per-field errors, outcome
    rowCount,  \* number of rows of the table (table_insert)
    tbl,       \* rows of the keyed table (table_update, table_delete)
    rw,        \* table_update / table_delete: request, position, outcome
    call,      \* one call of a helper or read-only handler: inputs and result
    reg        \* all_open_datasets, open_datasets_lock and the threads using them

vars ==
    <<catalog, cache, req, unrefreshed, pg, ins, rowCount, tbl, rw, call, reg>>

(***************************************************************************)
(* Bounds and input sets                                                   *)
(***************************************************************************)
Req == {"r1", "r2"}                 \* concurrently served requests
Columns == {"a", "b"}               \* column names a request can mention
Names == Columns \cup {""}          \* "" is a missing form field
IndexNames == {"t_a", "t_b"}
IndexLists == {<<>>, <<"a">>}   \* request.form.getlist("indexed_columns")
Methods == {"GET", "POST"}
Types == {"INTEGER", "BOGUS"}       \* submitted "type" values
Defaults == {"none", "good", "bad"} \* use_default off / a value the column type
                                    \* accepts / a value it rejects
FkTables == {"", "t", "zz"}         \* fk_table: none, the cached table, unknown
FkField == "a"                      \* fk_field submitted with fk_table

\* add_column's column_mapping keys
column_mapping ==
    {"TEXT", "INTEGER", "REAL", "BLOB", "JSON", "BOOL", "DATETIME", "DATE",
     "DECIMAL", "TIME", "VARCHAR"}

ColumnOps == {"add_column", "drop_column", "rename_column"}
IndexOps == {"add_index", "drop_index"}
StructOps == ColumnOps \cup IndexOps

IdleReq ==
    [op |-> "idle", method |-> "GET", pc |-> "idle", name |-> "", name2 |-> "",
     ctype |-> "", nullable |-> FALSE, dflt |-> "none", fk |-> "",
     icols |-> <<>>, seen |-> {}, model |-> {}, result |-> "none",
     applied |-> FALSE, scope |-> "none", refreshed |-> FALSE]

(***************************************************************************)
(* The engine's catalog                                                    *)
(***************************************************************************)
\* peewee's make_index_name for a one-column index on the table
IndexNameOf(cols) == IF cols = <<"a">> THEN "t_a" ELSE "t_b"

IdxNames(cat) == {i[1] : i \in cat.idx}

\* SqliteDataSet.get_columns / get_indexes: straight from the live database
get_columns == catalog.cols
get_indexes == IdxNames(catalog)

\* DataSet.update_cache(table): the model is regenerated from the live schema
update_cache == catalog

(***************************************************************************)
(* add_column                                                              *)
(***************************************************************************)
\* The handler up to the migrate() call: request data, the name/type check,
\* the foreign-key lookup in the cached models, and the migrator's own
\* "not null but has no default" check, which raises before any statement.
AddColumnStart(r) ==
    /\ req[r].pc = "idle"
    /\ \E m \in Methods, n \in Names, ty \in Types, nl \in BOOLEAN,
          d \in Defaults, f \in FkTables :
        LET base == [IdleReq EXCEPT !.op = "add_column", !.method = m]
            post == [base EXCEPT !.name = n, !.ctype = ty]
            fkError == f # "" /\ ~(f = "t" /\ FkField \in cache.cols)
        IN  req' = [req EXCEPT ![r] =
              IF m = "GET"
                THEN [base EXCEPT !.pc = "done", !.result = "form"]
              ELSE IF ~(n # "" /\ ty \in column_mapping)
                THEN [post EXCEPT !.pc = "done", !.result = "rejected"]
              ELSE IF fkError
                THEN [post EXCEPT !.pc = "done", !.result = "exec_failed",
                                  !.fk = f]
              ELSE IF ~nl /\ d = "none"
                THEN [post EXCEPT !.pc = "done", !.result = "exec_failed"]
              ELSE [post EXCEPT !.pc = "alter", !.nullable = nl,
                                !.dflt = IF nl THEN "none" ELSE d]]
    /\ UNCHANGED <<catalog, cache, unrefreshed, pg, ins, rowCount,
                   tbl, rw, call, reg>>

\* migrate(add_column): ALTER TABLE ADD COLUMN, issued with no transaction
\* scope around it, so it is committed as soon as the engine has run it.
\* A nullable column is complete here; a NOT NULL one still needs its default
\* applied and the constraint set.
AddColumnAlter(r) ==
    /\ req[r].pc = "alter"
    /\ IF req[r].name \in catalog.cols
         THEN \* duplicate column name: the engine rejects the statement
              /\ req' = [req EXCEPT ![r].pc = "done", ![r].result = "exec_failed",
                                    ![r].scope = "unscoped"]
              /\ UNCHANGED <<catalog, unrefreshed>>
         ELSE /\ catalog' = [catalog EXCEPT !.cols = @ \cup {req[r].name}]
              /\ req' = [req EXCEPT ![r].pc = IF req[r].nullable THEN "committed"
                                                                ELSE "notnull",
                                    ![r].applied = TRUE, ![r].scope = "unscoped"]
              /\ unrefreshed' = unrefreshed \cup {r}
    /\ UNCHANGED <<cache, pg, ins, rowCount, tbl, rw, call, reg>>

\* migrate(add_column), NOT NULL column: UPDATE ... SET col = default, then
\* the NOT NULL constraint.  A default the column type rejects raises here,
\* after the ALTER above has been committed.
AddColumnNotNull(r) ==
    /\ req[r].pc = "notnull"
    /\ req' = [req EXCEPT ![r] =
          IF req[r].dflt = "bad"
            THEN [@ EXCEPT !.pc = "done", !.result = "exec_failed"]
            ELSE [@ EXCEPT !.pc = "committed"]]
    /\ UNCHANGED <<catalog, cache, unrefreshed, pg, ins, rowCount,
                   tbl, rw, call, reg>>

\* A success path that returns without refreshing the cache.
add_column_return_NoRefresh(r) ==
    /\ req[r].pc = "committed"
    /\ req[r].op = "add_column"
    /\ req' = [req EXCEPT ![r].pc = "done", ![r].result = "success"]
    /\ UNCHANGED <<catalog, cache, unrefreshed, pg, ins, rowCount,
                   tbl, rw, call, reg>>

\* add_column's else branch: flash, dataset.update_cache(table), redirect.
add_column_return(r) ==
    /\ req[r].pc = "committed"
    /\ req[r].op = "add_column"
    /\ cache' = update_cache
    /\ unrefreshed' = {}
    /\ req' = [req EXCEPT ![r].pc = "done", ![r].result = "success",
                          ![r].refreshed = TRUE]
    /\ UNCHANGED <<catalog, pg, ins, rowCount, tbl, rw, call, reg>>

(***************************************************************************)
(* drop_column                                                             *)
(***************************************************************************)
\* The handler up to the migrate() call: the live column list is read on
\* every request, the name is checked against it on POST.
DropColumnStart(r) ==
    /\ req[r].pc = "idle"
    /\ \E m \in Methods, n \in Names :
        LET base == [IdleReq EXCEPT !.op = "drop_column", !.method = m,
                        !.name = n, !.seen = get_columns]
        IN  req' = [req EXCEPT ![r] =
              IF m = "GET"
                THEN [IdleReq EXCEPT !.op = "drop_column", !.pc = "done",
                                     !.result = "form"]
              ELSE IF n \in base.seen
                THEN [base EXCEPT !.pc = "ddl"]
              ELSE [base EXCEPT !.pc = "done", !.result = "rejected"]]
    /\ UNCHANGED <<catalog, cache, unrefreshed, pg, ins, rowCount,
                   tbl, rw, call, reg>>

\* migrate(drop_column), no transaction scope.  The engine rejects the
\* statement when the column is gone by now or is the table's only column;
\* indexes on the column go with it.
DropColumnDDL(r) ==
    /\ req[r].pc = "ddl"
    /\ req[r].op = "drop_column"
    /\ IF req[r].name \notin catalog.cols \/ Cardinality(catalog.cols) = 1
         THEN /\ req' = [req EXCEPT ![r].pc = "done", ![r].result = "exec_failed",
                                    ![r].scope = "unscoped"]
              /\ UNCHANGED <<catalog, unrefreshed>>
         ELSE /\ catalog' = [cols |-> catalog.cols \ {req[r].name},
                             idx |-> {i \in catalog.idx : i[2] # req[r].name}]
              /\ req' = [req EXCEPT ![r].pc = "committed", ![r].applied = TRUE,
                                    ![r].scope = "unscoped"]
              /\ unrefreshed' = unrefreshed \cup {r}
    /\ UNCHANGED <<cache, pg, ins, rowCount, tbl, rw, call, reg>>

\* drop_column's else branch: flash, dataset.update_cache(table), redirect.
drop_column_return(r) ==
    /\ req[r].pc = "committed"
    /\ req[r].op = "drop_column"
    /\ cache' = update_cache
    /\ unrefreshed' = {}
    /\ req' = [req EXCEPT ![r].pc = "done", ![r].result = "success",
                          ![r].refreshed = TRUE]
    /\ UNCHANGED <<catalog, pg, ins, rowCount, tbl, rw, call, reg>>

(***************************************************************************)
(* rename_column                                                           *)
(***************************************************************************)
\* The name check without its collision half.
RenameColumnStart_NoCollisionCheck(r) ==
    /\ req[r].pc = "idle"
    /\ \E m \in Methods, n \in Names, n2 \in Columns :
        LET base == [IdleReq EXCEPT !.op = "rename_column", !.method = m,
                        !.name = n, !.name2 = n2, !.seen = get_columns]
        IN  req' = [req EXCEPT ![r] =
              IF m = "GET"
                THEN [IdleReq EXCEPT !.op = "rename_column", !.pc = "done",
                                     !.result = "form"]
              ELSE IF n \in base.seen
                THEN [base EXCEPT !.pc = "ddl"]
              ELSE [base EXCEPT !.pc = "done", !.result = "rejected"]]
    /\ UNCHANGED <<catalog, cache, unrefreshed, pg, ins, rowCount,
                   tbl, rw, call, reg>>

\* The handler up to the migrate() call: the live column list is read, and on
\* POST the old name must be in it and the new name must not.
RenameColumnStart(r) ==
    /\ req[r].pc = "idle"
    /\ \E m \in Methods, n \in Names, n2 \in Columns :
        LET base == [IdleReq EXCEPT !.op = "rename_column", !.method = m,
                        !.name = n, !.name2 = n2, !.seen = get_columns]
        IN  req' = [req EXCEPT ![r] =
              IF m = "GET"
                THEN [IdleReq EXCEPT !.op = "rename_column", !.pc = "done",
                                     !.result = "form"]
              ELSE IF (n \in base.seen) /\ (n2 \notin base.seen)
                THEN [base EXCEPT !.pc = "ddl"]
              ELSE [base EXCEPT !.pc = "done", !.result = "rejected"]]
    /\ UNCHANGED <<catalog, cache, unrefreshed, pg, ins, rowCount,
                   tbl, rw, call, reg>>

\* migrate(rename_column), no transaction scope.  The engine rejects the
\* statement when the old name is gone by now or the new one is taken;
\* indexes follow the renamed column.
RenameColumnDDL(r) ==
    /\ req[r].pc = "ddl"
    /\ req[r].op = "rename_column"
    /\ IF req[r].name \notin catalog.cols \/ req[r].name2 \in catalog.cols
         THEN /\ req' = [req EXCEPT ![r].pc = "done", ![r].result = "exec_failed",
                                    ![r].scope = "unscoped"]
              /\ UNCHANGED <<catalog, unrefreshed>>
         ELSE /\ catalog' =
                   [cols |-> (catalog.cols \ {req[r].name}) \cup {req[r].name2},
                    idx |-> {<<i[1], IF i[2] = req[r].name THEN req[r].name2
                                                           ELSE i[2]>> :
                                i \in catalog.idx}]
              /\ req' = [req EXCEPT ![r].pc = "committed", ![r].applied = TRUE,
                                    ![r].scope = "unscoped"]
              /\ unrefreshed' = unrefreshed \cup {r}
    /\ UNCHANGED <<cache, pg, ins, rowCount, tbl, rw, call, reg>>

\* rename_column's else branch: flash, dataset.update_cache(table), redirect.
rename_column_return(r) ==
    /\ req[r].pc = "committed"
    /\ req[r].op = "rename_column"
    /\ cache' = update_cache
    /\ unrefreshed' = {}
    /\ req' = [req EXCEPT ![r].pc = "done", ![r].result = "success",
                          ![r].refreshed = TRUE]
    /\ UNCHANGED <<catalog, pg, ins, rowCount, tbl, rw, call, reg>>

(***************************************************************************)
(* add_index, drop_index                                                   *)
(***************************************************************************)
AddIndexStart(r) ==
    /\ req[r].pc = "idle"
    /\ \E m \in Methods, cs \in IndexLists :
        LET base == [IdleReq EXCEPT !.op = "add_index", !.method = m,
                        !.icols = cs]
        IN  req' = [req EXCEPT ![r] =
              IF m = "GET"
                THEN [IdleReq EXCEPT !.op = "add_index", !.pc = "done",
                                     !.result = "form"]
              ELSE IF cs # <<>>
                THEN [base EXCEPT !.pc = "ddl"]
              ELSE [base EXCEPT !.pc = "done", !.result = "rejected"]]
    /\ UNCHANGED <<catalog, cache, unrefreshed, pg, ins, rowCount,
                   tbl, rw, call, reg>>

\* migrate(add_index), no transaction scope, then the else branch: flash and
\* redirect.  The handler returns without calling update_cache.
AddIndexDDL(r) ==
    /\ req[r].pc = "ddl"
    /\ req[r].op = "add_index"
    /\ LET col == req[r].icols[1]
           nm == IndexNameOf(req[r].icols)
       IN  IF col \notin catalog.cols \/ nm \in IdxNames(catalog)
             THEN /\ req' = [req EXCEPT ![r].pc = "done",
                                        ![r].result = "exec_failed",
                                        ![r].scope = "unscoped"]
                  /\ UNCHANGED <<catalog, unrefreshed>>
             ELSE /\ catalog' = [catalog EXCEPT !.idx = @ \cup {<<nm, col>>}]
                  /\ req' = [req EXCEPT ![r].pc = "done", ![r].result = "success",
                                        ![r].applied = TRUE,
                                        ![r].scope = "unscoped"]
                  /\ unrefreshed' = unrefreshed \cup {r}
    /\ UNCHANGED <<cache, pg, ins, rowCount, tbl, rw, call, reg>>

\* The whole handler.  `indexes` is the list get_indexes returned, so the
\* attribute lookup indexes._migrator raises AttributeError inside the try,
\* before any statement is built: a POST naming an existing index always
\* lands in the except branch.
drop_index(r) ==
    /\ req[r].pc = "idle"
    /\ \E m \in Methods, n \in IndexNames \cup {""} :
        LET base == [IdleReq EXCEPT !.op = "drop_index", !.method = m,
                        !.name = n, !.seen = get_indexes, !.pc = "done"]
        IN  req' = [req EXCEPT ![r] =
              IF m = "GET"
                THEN [IdleReq EXCEPT !.op = "drop_index", !.pc = "done",
                                     !.result = "form"]
              ELSE IF n \in base.seen
                THEN [base EXCEPT !.result = "exec_failed"]
              ELSE [base EXCEPT !.result = "rejected"]]
    /\ UNCHANGED <<catalog, cache, unrefreshed, pg, ins, rowCount,
                   tbl, rw, call, reg>>

(***************************************************************************)
(* Readers of the cached model                                             *)
(***************************************************************************)
\* table_content: dataset.update_cache(table)
ContentRefresh(r) ==
    /\ req[r].pc = "idle"
    /\ cache' = update_cache
    /\ unrefreshed' = {}
    /\ req' = [req EXCEPT ![r] = [IdleReq EXCEPT !.op = "table_content",
                                     !.pc = "model", !.refreshed = TRUE]]
    /\ UNCHANGED <<catalog, pg, ins, rowCount, tbl, rw, call, reg>>

\* table_content: model = dataset[table].model_class
ContentModel(r) ==
    /\ req[r].pc = "model"
    /\ req[r].op = "table_content"
    /\ req' = [req EXCEPT ![r].model = cache.cols, ![r].pc = "columns"]
    /\ UNCHANGED <<catalog, cache, unrefreshed, pg, ins, rowCount,
                   tbl, rw, call, reg>>

\* table_content: for column in dataset.get_columns(...):
\*                    field = model._meta.columns[column.name]
\* A live column the model lacks is a KeyError nothing catches.
ContentColumns(r) ==
    /\ req[r].pc = "columns"
    /\ req' = [req EXCEPT ![r].seen = get_columns, ![r].pc = "done",
                 ![r].result = IF get_columns \subseteq req[r].model
                                 THEN "ok" ELSE "crash"]
    /\ UNCHANGED <<catalog, cache, unrefreshed, pg, ins, rowCount,
                   tbl, rw, call, reg>>

\* table_export: columns = dataset.get_columns(file, table); a GET, or a POST
\* selecting none of them, renders the form.
ExportColumns(r) ==
    /\ req[r].pc = "idle"
    /\ \E m \in Methods, sel \in SUBSET Columns :
        LET base == [IdleReq EXCEPT !.op = "table_export", !.method = m,
                        !.seen = get_columns \cap sel]
        IN  req' = [req EXCEPT ![r] =
              IF m = "GET" \/ base.seen = {}
                THEN [base EXCEPT !.pc = "done", !.result = "form"]
                ELSE [base EXCEPT !.pc = "model"]]
    /\ UNCHANGED <<catalog, cache, unrefreshed, pg, ins, rowCount,
                   tbl, rw, call, reg>>

\* table_export: model = dataset[table].model_class
\*               fields = [model._meta.columns[c] for c in selected]
\* outside the try: a selected live column the model lacks is a KeyError.
ExportModel(r) ==
    /\ req[r].pc = "model"
    /\ req[r].op = "table_export"
    /\ req' = [req EXCEPT ![r].model = cache.cols, ![r].pc = "done",
                 ![r].result = IF req[r].seen \subseteq cache.cols
                                 THEN "ok" ELSE "crash"]
    /\ UNCHANGED <<catalog, cache, unrefreshed, pg, ins, rowCount,
                   tbl, rw, call, reg>>

\* The response is sent; the thread serves the next request.
Finish(r) ==
    /\ req[r].pc = "done"
    /\ req' = [req EXCEPT ![r] = IdleReq]
    /\ UNCHANGED <<catalog, cache, unrefreshed, pg, ins, rowCount,
                   tbl, rw, call, reg>>

(***************************************************************************)
(* The structural specification                                            *)
(***************************************************************************)
NoPage == [state |-> "unused"]
NoInsert == [state |-> "unused"]
NoRows == [key |-> "none", rows |-> {}]
NoRowRequest == [state |-> "unused"]
NoCall == [state |-> "unused"]
NoRegistry == [state |-> "unused"]

Init ==
    /\ catalog = [cols |-> {"a"}, idx |-> {}]
    /\ cache = catalog
    /\ req = [r \in Req |-> IdleReq]
    /\ unrefreshed = {}
    /\ pg = NoPage
    /\ ins = NoInsert
    /\ rowCount = 0
    /\ tbl = NoRows
    /\ rw = NoRowRequest
    /\ call = NoCall
    /\ reg = NoRegistry

Next ==
    \E r \in Req :
        \/ AddColumnStart(r)
        \/ AddColumnAlter(r)
        \/ AddColumnNotNull(r)
        \/ add_column_return(r)
        \/ DropColumnStart(r)
        \/ DropColumnDDL(r)
        \/ drop_column_return(r)
        \/ RenameColumnStart(r)
        \/ RenameColumnDDL(r)
        \/ rename_column_return(r)
        \/ AddIndexStart(r)
        \/ AddIndexDDL(r)
        \/ drop_index(r)
        \/ ContentRefresh(r)
        \/ ContentModel(r)
        \/ ContentColumns(r)
        \/ ExportColumns(r)
        \/ ExportModel(r)
        \/ Finish(r)

Spec == Init /\ [][Next]_vars

(***************************************************************************)
(* Properties of the structural handlers                                   *)
(***************************************************************************)
Done(r, op) == req[r].pc = "done" /\ req[r].op = op

\* C1: a request that returns success from add_column, drop_column or
\* rename_column has had update_cache run after its DDL was committed, and
\* whenever no committed DDL is waiting for a refresh the cached model is
\* the live schema, so the next read of the model shows the change.
C1_ColumnOpRefreshesCache ==
    /\ \A r \in Req :
         (req[r].pc = "done" /\ req[r].op \in ColumnOps
            /\ req[r].result = "success")
         => (r \notin unrefreshed /\ req[r].refreshed)
    /\ (unrefreshed = {} => cache = catalog)

C1_Witness ==
    \E r \in Req :
        /\ Done(r, "add_column")
        /\ req[r].result = "success"
        /\ req[r].name \in cache.cols
        /\ cache = catalog

\* C2: a request that returns success from add_index or drop_index has had
\* update_cache run after its DDL was committed.
C2_IndexOpRefreshesCache ==
    \A r \in Req :
        (req[r].pc = "done" /\ req[r].op \in IndexOps
           /\ req[r].result = "success")
        => (r \notin unrefreshed /\ req[r].refreshed)

\* C3: a POST to drop_index naming an index the table has reports success,
\* having removed the index.
C3_DropIndexOfExistingSucceeds ==
    \A r \in Req :
        (Done(r, "drop_index") /\ req[r].method = "POST"
           /\ req[r].name \in req[r].seen)
        => (req[r].result = "success" /\ req[r].applied)

PreconditionViolated(rq) ==
    \/ rq.op = "rename_column" /\ (rq.name \notin rq.seen \/ rq.name2 \in rq.seen)
    \/ rq.op = "drop_column" /\ rq.name \notin rq.seen
    \/ rq.op = "add_index" /\ rq.icols = <<>>
    \/ rq.op = "add_column" /\ (rq.name = "" \/ rq.ctype \notin column_mapping)
    \/ rq.op = "drop_index" /\ rq.name \notin rq.seen

\* C5: the step in which a handler takes a structural POST whose
\* precondition is violated ends the request as rejected, and changes
\* neither the schema nor the cache (no DDL is issued).
C5_PreconditionRejectedBeforeDDL ==
    [][\A r \in Req :
          (/\ req[r].pc = "idle"
           /\ req'[r].pc # "idle"
           /\ req'[r].op \in StructOps
           /\ req'[r].method = "POST"
           /\ PreconditionViolated(req'[r]))
          => (/\ req'[r].pc = "done"
              /\ req'[r].result = "rejected"
              /\ req'[r].scope = "none"
              /\ catalog' = catalog
              /\ cache' = cache)]_vars

C5_Witness ==
    \E r \in Req :
        /\ Done(r, "rename_column")
        /\ req[r].method = "POST"
        /\ req[r].name \in req[r].seen
        /\ req[r].name2 \in req[r].seen
        /\ req[r].result = "rejected"
        /\ req[r].scope = "none"

\* C6: every statement that changes the schema or the rows is issued inside
\* an explicit transaction scope.
C6_MutationsRunInTransactionScope ==
    \A r \in Req : req[r].scope # "unscoped"

\* C7: a request that has read the table's live columns and its cached model
\* finds every live column in the model.
C7_LiveColumnsAreInCachedModel ==
    \A r \in Req :
        (req[r].pc = "done" /\ req[r].op \in {"table_content", "table_export"}
           /\ req[r].result # "form")
        => req[r].seen \subseteq req[r].model

(***************************************************************************)
(* table_content: pagination                                               *)
(*                                                                         *)
(* A page request is a string, modelled as a sequence of characters.       *)
(* "sup2" stands for the one character U+00B2 (superscript two): one of    *)
(* the characters str.isdigit() accepts and int() rejects.                 *)
(***************************************************************************)
ROWS_PER_PAGE == 50

AsciiDigits == {"0", "1", "2", "3", "4", "5", "6", "7", "8", "9"}
last == <<"l", "a", "s", "t">>

PageInputs ==
    {<<>>, <<"0">>, <<"1">>, <<"2">>, <<"3">>, <<"4">>, <<"9", "9">>,
     <<"-", "1">>, <<"x">>, <<"1", "x">>, <<"0", "3">>, last, <<"sup2">>,
     <<"1", "0", "0", "0", "0", "0", "1">>}
RowCounts == {0, 1, 2, 3, 50, 51, 100, 125, 1000000, 1000001, 50000001}
PageSizes == {1, 2, ROWS_PER_PAGE}

DigitValue(c) ==
    CASE c = "0" -> 0 [] c = "1" -> 1 [] c = "2" -> 2 [] c = "3" -> 3
      [] c = "4" -> 4 [] c = "5" -> 5 [] c = "6" -> 6 [] c = "7" -> 7
      [] c = "8" -> 8 [] c = "9" -> 9

\* str.isdigit(): non-empty and every character has the Unicode digit property
isdigit(s) ==
    /\ Len(s) > 0
    /\ \A i \in 1..Len(s) : s[i] \in AsciiDigits \cup {"sup2"}

\* int(s) raises ValueError unless every character is a decimal digit
IntRaises(s) == \E i \in 1..Len(s) : s[i] \notin AsciiDigits

RECURSIVE int(_)
int(s) ==
    IF Len(s) = 0 THEN 0
    ELSE 10 * int(SubSeq(s, 1, Len(s) - 1)) + DigitValue(s[Len(s)])

min(x, y) == IF x < y THEN x ELSE y
max(x, y) == IF x > y THEN x ELSE y

\* int(math.ceil(total_rows / float(rows_per_page)))
ceil_div(total_rows, rows_per_page) ==
    IF total_rows % rows_per_page = 0
      THEN total_rows \div rows_per_page
      ELSE total_rows \div rows_per_page + 1

\* page "last" becomes this digit string
page_for_last ==
    <<"1", "0", "0", "0", "0", "0", "0">>

\* table_content, lines 704-721: the page values the template is given, or
\* the ValueError that int() raises out of the handler.
table_content_page(page, total_rows, rows_per_page) ==
    LET text == IF page = last THEN page_for_last ELSE page
    IN  IF isdigit(text) /\ IntRaises(text)
          THEN [state |-> "ValueError", page |-> page,
                total_rows |-> total_rows, rows_per_page |-> rows_per_page]
          ELSE
            LET requested == IF isdigit(text) THEN int(text) ELSE 1
                total_pages == max(1, ceil_div(total_rows, rows_per_page))
                page_number == max(min(requested, total_pages), 1)
            IN  [state |-> "rendered", page |-> page,
                 total_rows |-> total_rows, rows_per_page |-> rows_per_page,
                 total_pages |-> total_pages,
                 page_number |-> page_number,
                 previous_page |-> IF page_number > 1 THEN {page_number - 1}
                                                      ELSE {},
                 next_page |-> IF page_number < total_pages
                                 THEN {page_number + 1} ELSE {}]

Paginate ==
    /\ pg.state = "request"
    /\ pg' = table_content_page(pg.page, pg.total_rows, pg.rows_per_page)
    /\ UNCHANGED <<catalog, cache, req, unrefreshed, ins, rowCount,
                   tbl, rw, call, reg>>

InitPage ==
    /\ catalog = [cols |-> {"a"}, idx |-> {}]
    /\ cache = catalog
    /\ req = [r \in Req |-> IdleReq]
    /\ unrefreshed = {}
    /\ ins = NoInsert
    /\ rowCount = 0
    /\ tbl = NoRows
    /\ rw = NoRowRequest
    /\ call = NoCall
    /\ reg = NoRegistry
    /\ \E page \in PageInputs, n \in RowCounts, k \in PageSizes :
         pg = [state |-> "request", page |-> page, total_rows |-> n,
               rows_per_page |-> k]

NextPage == Paginate

SpecPage == InitPage /\ [][NextPage]_vars

\* p is max(1, ceil(n / k)): the least p >= 1 with p * k >= n
IsTotalPages(p, n, k) ==
    /\ p >= 1
    /\ p * k >= n
    /\ (p = 1 \/ (p - 1) * k < n)

\* The page a request names properly: a decimal number >= 1
NamesPage(page) == isdigit(page) /\ ~IntRaises(page) /\ int(page) >= 1

\* C8: every page request is answered with total_pages = max(1, ceil(total
\* rows / page size)) and a page in [1, total_pages]: the named page clamped
\* to total_pages, page 1 for a request that names none (zero, negative,
\* empty, non-numeric); previous_page is absent exactly on page 1 and
\* next_page exactly on page total_pages.
C8_PageClampedIntoRange ==
    pg.state \notin {"unused", "request"} =>
        /\ pg.state = "rendered"
        /\ IsTotalPages(pg.total_pages, pg.total_rows, pg.rows_per_page)
        /\ pg.page_number \in 1..pg.total_pages
        /\ (NamesPage(pg.page) =>
              pg.page_number = min(int(pg.page), pg.total_pages))
        /\ (~NamesPage(pg.page) /\ pg.page # last => pg.page_number = 1)
        /\ (pg.previous_page = {} <=> pg.page_number = 1)
        /\ (pg.next_page = {} <=> pg.page_number = pg.total_pages)

\* C9: page "last" is answered with page total_pages.
C9_LastResolvesToTotalPages ==
    (pg.state = "rendered" /\ pg.page = last) =>
        pg.page_number = pg.total_pages

(***************************************************************************)
(* minimal_validate_field                                                  *)
(*                                                                         *)
(* Raw form values are sequences of characters.  A validated value is a    *)
(* record [kind, v]: the text, None, a bool, or decoded bytes (kept as the *)
(* base64 digits they were decoded from).                                  *)
(***************************************************************************)
Str(cs) == [kind |-> "str", v |-> cs]
None == [kind |-> "None", v |-> <<>>]
NoError == "None"

Base64Alphabet ==
    AsciiDigits \cup {"Y", "Q", "W", "J", "j", "T", "N", "n", "u", "l", "x",
                      "t", "m", "+", "/"}

\* str.lower() on the letters that occur
LowerChar(c) ==
    CASE c = "N" -> "n" [] c = "T" -> "t" [] c = "Y" -> "y" [] c = "Q" -> "q"
      [] c = "W" -> "w" [] c = "J" -> "j" [] OTHER -> c
lower(s) == [i \in 1..Len(s) |-> LowerChar(s[i])]

\* str.strip(): leading and trailing blanks removed
RECURSIVE lstrip(_)
lstrip(s) == IF Len(s) > 0 /\ s[1] = " " THEN lstrip(Tail(s)) ELSE s
RECURSIVE rstrip(_)
rstrip(s) ==
    IF Len(s) > 0 /\ s[Len(s)] = " " THEN rstrip(SubSeq(s, 1, Len(s) - 1))
    ELSE s
strip(s) == rstrip(lstrip(s))

\* float(s) succeeds: blanks stripped, an optional sign, then digits with at
\* most one point and at least one digit (the alphabet has no exponent
\* letter and cannot spell inf or nan)
FloatParses(s) ==
    LET t == strip(s)
        u == IF Len(t) > 0 /\ t[1] \in {"-", "+"} THEN Tail(t) ELSE t
    IN  /\ \A i \in 1..Len(u) : u[i] \in AsciiDigits \cup {"."}
        /\ Cardinality({i \in 1..Len(u) : u[i] = "."}) <= 1
        /\ \E i \in 1..Len(u) : u[i] \in AsciiDigits

\* binascii.a2b_base64 in its default, non-strict mode, as base64.b64decode
\* calls it: characters outside the alphabet are skipped, a pad sequence
\* that completes a quad ends the input, and a quad left open is an error.
\* The result is <<ok, data digits consumed>>.
RECURSIVE a2b_base64(_, _, _, _)
a2b_base64(s, quad_pos, pads, data) ==
    IF Len(s) = 0 THEN <<quad_pos = 0, data>>
    ELSE IF s[1] = "="
      THEN IF quad_pos >= 2 /\ quad_pos + pads + 1 >= 4
             THEN <<TRUE, data>>
             ELSE a2b_base64(Tail(s), quad_pos,
                             IF quad_pos >= 2 THEN pads + 1 ELSE pads, data)
    ELSE IF s[1] \notin Base64Alphabet
      THEN a2b_base64(Tail(s), quad_pos, pads, data)
    ELSE a2b_base64(Tail(s), (quad_pos + 1) % 4, 0, Append(data, s[1]))

\* base64.b64decode(s) of a str: non-ASCII text raises ValueError first
b64decode(s) ==
    IF \E i \in 1..Len(s) : s[i] = "sup2" THEN <<FALSE, <<>>>>
    ELSE a2b_base64(s, 0, 0, <<>>)

\* field.db_value(value) raises: the adapter of an IntegerField is taken to
\* coerce with int(); the other adapters take any text
db_value_raises(field, value) ==
    field.type = "IntegerField" /\ value.kind = "str" /\ IntRaises(value.v)

\* A validator that takes a BLOB value as it comes.
minimal_validate_field_BlobUnchecked(field, raw) ==
    IF field.type = "BlobField"
      THEN [value |-> Str(raw), err |-> NoError]
    ELSE IF field.type = "IntegerField" /\ ~isdigit(raw)
      THEN [value |-> Str(raw), err |-> "Value is not a number."]
    ELSE [value |-> Str(raw), err |-> NoError]

\* minimal_validate_field, lines 846-874
minimal_validate_field(field, raw) ==
    LET isNull == strip(lower(raw)) = <<"n", "u", "l", "l">>
        boolTokens == {<<"1">>, <<"0">>, <<"t">>, <<"f">>,
                       <<"t", "r", "u", "e">>, <<"f", "a", "l", "s", "e">>}
        truthy == {<<"1">>, <<"t">>, <<"t", "r", "u", "e">>}
        checked ==
            IF field.type = "IntegerField" /\ ~isdigit(raw)
              THEN [value |-> Str(raw), err |-> "Value is not a number."]
            ELSE IF field.type = "IntegerField"
              THEN [value |-> Str(raw), err |-> NoError]
            ELSE IF field.type = "FloatField"
              THEN [value |-> Str(raw),
                    err |-> IF FloatParses(raw) THEN NoError
                            ELSE "Value is not a numeric/real."]
            ELSE IF field.type = "BooleanField"
              THEN IF lower(raw) \notin boolTokens
                     THEN [value |-> Str(raw),
                           err |-> "Value must be 1, 0, true, false, t or f."]
                     ELSE [value |-> [kind |-> "bool", v |-> lower(raw) \in truthy],
                           err |-> NoError]
            ELSE IF field.type = "BlobField"
              THEN IF b64decode(raw)[1]
                     THEN [value |-> [kind |-> "bytes", v |-> b64decode(raw)[2]],
                           err |-> NoError]
                     ELSE [value |-> Str(raw),
                           err |-> "Value must be base64-encoded binary data."]
            ELSE [value |-> Str(raw), err |-> NoError]
    IN  IF isNull /\ ~field.null
          THEN [value |-> [kind |-> "str", v |-> <<"N", "U", "L", "L">>],
                err |-> "Column does not allow NULL values."]
        ELSE IF isNull
          THEN [value |-> None, err |-> NoError]
        ELSE IF checked.err # NoError
          THEN checked
        ELSE IF db_value_raises(field, checked.value)
          THEN [value |-> checked.value, err |-> "invalid literal for int()"]
        ELSE checked

(***************************************************************************)
(* table_insert                                                            *)
(*                                                                         *)
(* The table has an auto-increment key "id", an INTEGER NOT NULL column    *)
(* "n" without default and a nullable BLOB column "v".                     *)
(***************************************************************************)
MaxRows == 2                  \* inserts are offered while rowCount < MaxRows

FormKeys == {"id", "n", "v"}
RawValues ==
    {<<>>, <<" ", "N", "u", "l", "l">>, <<"1", "2">>, <<"x">>, <<"sup2">>,
     <<"Y", "Q", "=", "=">>, <<"Y">>}
\* request.form: any subset of the keys, each with a raw value (the value
\* given for the auto-increment key is never looked at)
Forms ==
    {f \in UNION {[K -> RawValues] : K \in SUBSET FormKeys} :
        "id" \in DOMAIN f => f["id"] = <<"1", "2">>}

AutoFields == {"id"}
InsertField(k) ==
    IF k = "n" THEN [type |-> "IntegerField", null |-> FALSE]
    ELSE IF k = "v" THEN [type |-> "BlobField", null |-> TRUE]
    ELSE [type |-> "AutoField", null |-> FALSE]

\* col_dict of table_insert: the live columns that are not AutoFields
insert_col_dict == {"n", "v"}

\* The engine runs the INSERT: a row without a value for the NOT NULL
\* column is rejected (IntegrityError)
InsertExecutes(insert) == "n" \in DOMAIN insert

\* A validation loop that stops at the first failing field.
table_insert_FirstErrorOnly(method, form, rows) ==
    LET keys == DOMAIN form \cap insert_col_dict
        failing == {k \in keys :
                      minimal_validate_field(InsertField(k), form[k]).err
                        # NoError}
        first == IF failing = {} THEN {} ELSE {CHOOSE k \in failing : TRUE}
        errors == [k \in first |->
                      minimal_validate_field(InsertField(k), form[k]).err]
    IN  [state |-> "done", method |-> method, form |-> form,
         errors |-> errors,
         result |-> IF method = "GET" THEN "form"
                    ELSE IF first # {} THEN "errors" ELSE "success",
         txn |-> IF method = "POST" /\ first = {} THEN "committed" ELSE "none",
         rows |-> IF method = "POST" /\ first = {} THEN rows + 1 ELSE rows]

\* table_insert, lines 895-930: the form is validated field by field, every
\* error is kept, and the INSERT runs in dataset.transaction() only when no
\* field failed and at least one value was given.
table_insert(method, form, rows) ==
    LET keys == DOMAIN form \cap insert_col_dict
        checked == [k \in keys |->
                      minimal_validate_field(InsertField(k), form[k])]
        errors == [k \in {k \in keys : checked[k].err # NoError} |->
                      checked[k].err]
        insert == [k \in {k \in keys : checked[k].err = NoError} |->
                      checked[k].value]
        base == [state |-> "done", method |-> method, form |-> form,
                 errors |-> errors, result |-> "form", txn |-> "none",
                 rows |-> rows]
    IN  IF method # "POST" THEN [base EXCEPT !.errors = <<>>]
        ELSE IF DOMAIN errors # {} THEN [base EXCEPT !.result = "errors"]
        ELSE IF DOMAIN insert # {}
          THEN IF InsertExecutes(insert)
                 THEN [base EXCEPT !.result = "success", !.txn = "committed",
                                   !.rows = rows + 1]
                 ELSE [base EXCEPT !.result = "insert_failed",
                                   !.txn = "rolled_back"]
        ELSE [base EXCEPT !.result = "no_data"]

InsertRequest ==
    /\ ins.state = "done"
    /\ rowCount < MaxRows
    /\ \E m \in Methods, f \in Forms :
         ins' = [state |-> "request", method |-> m, form |-> f]
    /\ UNCHANGED <<catalog, cache, req, unrefreshed, pg, rowCount,
                   tbl, rw, call, reg>>

InsertHandle ==
    /\ ins.state = "request"
    /\ ins' = table_insert(ins.method, ins.form, rowCount)
    /\ rowCount' = ins'.rows
    /\ UNCHANGED <<catalog, cache, req, unrefreshed, pg, tbl, rw, call, reg>>

InitInsert ==
    /\ catalog = [cols |-> {"id", "n", "v"}, idx |-> {}]
    /\ cache = catalog
    /\ req = [r \in Req |-> IdleReq]
    /\ unrefreshed = {}
    /\ pg = NoPage
    /\ rowCount = 0
    /\ tbl = NoRows
    /\ rw = NoRowRequest
    /\ call = NoCall
    /\ reg = NoRegistry
    /\ \E m \in Methods, f \in Forms :
         ins = [state |-> "request", method |-> m, form |-> f]

NextInsert == InsertRequest \/ InsertHandle

SpecInsert == InitInsert /\ [][NextInsert]_vars

\* The submitted columns whose value the Value Codec rejects
FailingColumns(form) ==
    {k \in DOMAIN form \cap insert_col_dict :
        minimal_validate_field(InsertField(k), form[k]).err # NoError}

\* C10: the step that handles an insert POST in which some submitted column
\* fails validation adds no row, opens no transaction, and reports an error
\* for every failing column.
C10_InvalidInsertRejectedWhole ==
    [][(/\ ins.state = "request"
        /\ ins'.state = "done"
        /\ ins.method = "POST"
        /\ FailingColumns(ins.form) # {})
       => (/\ rowCount' = rowCount
           /\ ins'.txn = "none"
           /\ ins'.result = "errors"
           /\ DOMAIN ins'.errors = FailingColumns(ins.form))]_vars

C10_Witness ==
    /\ ins.state = "done"
    /\ ins.method = "POST"
    /\ DOMAIN ins.form = {"n", "v"}
    /\ ins.form["n"] = <<"1", "2">>
    /\ ins.form["v"] = <<"Y">>
    /\ DOMAIN ins.errors = {"v"}
    /\ ins.txn = "none"

(***************************************************************************)
(* Primary-key tokens: encode_pk, decode_pk                                *)
(*                                                                         *)
(* A key is "single" (column a), "composite" (columns a, b: a CompositeKey)*)
(* or "none".  A row is a function from column names to values; the key    *)
(* columns hold text.  A token is a sequence of characters; the sentinel   *)
(* is kept as one symbol.                                                  *)
(***************************************************************************)
Uneditable == <<"__uneditable__">>
Delimiter == <<":", ":", ":">>

KeyKinds == {"single", "composite", "none"}

\* pk.field_names of the CompositeKey
field_names == <<"a", "b">>

\* str.split(sep): the text is cut at each occurrence of sep, found from the
\* left; cur is the part being collected
RECURSIVE SplitFrom(_, _, _, _)
SplitFrom(s, sep, cur, parts) ==
    IF Len(s) = 0 THEN Append(parts, cur)
    ELSE IF Len(s) >= Len(sep) /\ SubSeq(s, 1, Len(sep)) = sep
      THEN SplitFrom(SubSeq(s, Len(sep) + 1, Len(s)), sep, <<>>,
                     Append(parts, cur))
    ELSE SplitFrom(Tail(s), sep, Append(cur, s[1]), parts)
split(s, sep) == SplitFrom(s, sep, <<>>, <<>>)

\* sep.join(parts)
RECURSIVE join(_, _)
join(sep, parts) ==
    IF Len(parts) = 0 THEN <<>>
    ELSE IF Len(parts) = 1 THEN parts[1]
    ELSE parts[1] \o sep \o join(sep, Tail(parts))

\* encode_pk, lines 1253-1260: the key values joined by ":::"; the sentinel
\* only when reading a key value off the row raises
encode_pk(row, key) ==
    IF key = "composite"
      THEN IF \E i \in 1..Len(field_names) : field_names[i] \notin DOMAIN row
             THEN Uneditable
             ELSE join(Delimiter,
                       [i \in 1..Len(field_names) |-> row[field_names[i]]])
    ELSE row["a"]

\* decode_pk, lines 1263-1270: the expression is a sequence of <<column,
\* value>> equalities, read as their conjunction; zip() stops at the shorter
\* of the key fields and the parts of the token
decode_pk(key, pk_data) ==
    IF key = "composite"
      THEN LET values == split(pk_data, Delimiter)
               n == min(Len(field_names), Len(values))
           IN  [i \in 1..n |-> <<field_names[i], values[i]>>]
    ELSE << <<"a", pk_data>> >>

\* A row satisfies an expression of decode_pk
Satisfies(row, expr) == \A i \in 1..Len(expr) : row[expr[i][1]] = expr[i][2]

\* SELECT ... WHERE expr
Selected(rows, expr) == {row \in rows : Satisfies(row, expr)}

(***************************************************************************)
(* table_update, table_delete                                              *)
(*                                                                         *)
(* The table has the key columns a, b and an INTEGER NOT NULL column c.    *)
(***************************************************************************)
KeyValues == {<<"x">>, <<"y">>}
CellValues == {<<"0">>, <<"1">>}
TableRows == [a : KeyValues, b : KeyValues, c : CellValues]

\* The key of a row under a kind of primary key
KeyOf(row, key) ==
    IF key = "composite" THEN <<row.a, row.b>>
    ELSE IF key = "single" THEN <<row.a>>
    ELSE <<row.a, row.b, row.c>>

\* The contents the engine admits: no two rows share a primary key
Tables(key) ==
    {rows \in SUBSET TableRows :
        \A r1, r2 \in rows : KeyOf(r1, key) = KeyOf(r2, key) => r1 = r2}

\* <pk> of the URL
Tokens ==
    {<<"x">>, <<"y">>, <<"z">>,
     <<"x", ":", ":", ":", "x">>, <<"x", ":", ":", ":", "y">>,
     <<"y", ":", ":", ":", "x">>, <<"x", ":", ":", ":", "z">>,
     <<"x", ":", ":", ":", "y", ":", ":", ":", "z">>,
     Uneditable}

\* request.form of an update: nothing, or a raw value for column c
UpdateForms ==
    {<<>>} \cup {[k \in {"c"} |-> v] : v \in {<<"1">>, <<"x">>, <<"n", "u", "l", "l">>}}

UpdateField(k) == [type |-> "IntegerField", null |-> FALSE]

RowOutcome(result, rows, txn, n, errors) ==
    [result |-> result, rows |-> rows, txn |-> txn, n |-> n,
     errors |-> errors]

\* A handler that skips the look-up of the row.
table_update_NoLookup(key, rows, method, pk, form) ==
    LET expr == decode_pk(key, pk)
        keys == DOMAIN form \cap {"a", "b", "c"}
        checked == [k \in keys |-> minimal_validate_field(UpdateField(k), form[k])]
        failing == {k \in keys : checked[k].err # NoError}
        errors == [k \in failing |-> checked[k].err]
        hit == Selected(rows, expr)
    IN  IF key = "none" THEN RowOutcome("no_pk", rows, "none", 0, <<>>)
        ELSE IF pk = Uneditable
          THEN RowOutcome("unencodable", rows, "none", 0, <<>>)
        ELSE IF method # "POST" THEN RowOutcome("form", rows, "none", 0, <<>>)
        ELSE IF failing # {} THEN RowOutcome("errors", rows, "none", 0, errors)
        ELSE IF keys = {} THEN RowOutcome("no_data", rows, "none", 0, <<>>)
        ELSE RowOutcome("success",
                        (rows \ hit) \cup
                          {[row EXCEPT !.c = checked["c"].value.v] : row \in hit},
                        "committed", Cardinality(hit), <<>>)

\* table_update, lines 960-1039: the key is resolved, the row fetched
\* (DoesNotExist ends the request), the form validated field by field, and
\* UPDATE ... WHERE expr runs in dataset.transaction() when nothing failed.
table_update(key, rows, method, pk, form) ==
    LET expr == decode_pk(key, pk)
        keys == DOMAIN form \cap {"a", "b", "c"}
        checked == [k \in keys |-> minimal_validate_field(UpdateField(k), form[k])]
        failing == {k \in keys : checked[k].err # NoError}
        errors == [k \in failing |-> checked[k].err]
        hit == Selected(rows, expr)
    IN  IF key = "none" THEN RowOutcome("no_pk", rows, "none", 0, <<>>)
        ELSE IF pk = Uneditable
          THEN RowOutcome("unencodable", rows, "none", 0, <<>>)
        ELSE IF hit = {} THEN RowOutcome("not_found", rows, "none", 0, <<>>)
        ELSE IF method # "POST" THEN RowOutcome("form", rows, "none", 0, <<>>)
        ELSE IF failing # {} THEN RowOutcome("errors", rows, "none", 0, errors)
        ELSE IF keys = {} THEN RowOutcome("no_data", rows, "none", 0, <<>>)
        ELSE RowOutcome("success",
                        (rows \ hit) \cup
                          {[row EXCEPT !.c = checked["c"].value.v] : row \in hit},
                        "committed", Cardinality(hit), <<>>)

\* table_delete, lines 1044-1085: the same resolution and look-up; a POST
\* runs DELETE ... WHERE expr in dataset.transaction().
table_delete(key, rows, method, pk) ==
    LET expr == decode_pk(key, pk)
        hit == Selected(rows, expr)
    IN  IF key = "none" THEN RowOutcome("no_pk", rows, "none", 0, <<>>)
        ELSE IF pk = Uneditable
          THEN RowOutcome("unencodable", rows, "none", 0, <<>>)
        ELSE IF hit = {} THEN RowOutcome("not_found", rows, "none", 0, <<>>)
        ELSE IF method # "POST" THEN RowOutcome("form", rows, "none", 0, <<>>)
        ELSE RowOutcome("success", rows \ hit, "committed", Cardinality(hit),
                        <<>>)

RowRequest ==
    /\ rw.state = "done"
    /\ \E op \in {"update", "delete"}, m \in Methods, pk \in Tokens,
          f \in UpdateForms :
         /\ op = "delete" => f = <<>>
         /\ m = "GET" => f = <<>>
         /\ rw' = [state |-> "request", op |-> op, method |-> m, pk |-> pk,
                   form |-> f]
    /\ UNCHANGED <<catalog, cache, req, unrefreshed, pg, ins, rowCount, tbl,
                   call, reg>>

UpdateHandle ==
    /\ rw.state = "request"
    /\ rw.op = "update"
    /\ LET out == table_update(tbl.key, tbl.rows, rw.method, rw.pk, rw.form)
       IN  /\ tbl' = [tbl EXCEPT !.rows = out.rows]
           /\ rw' = [state |-> "done", op |-> rw.op, method |-> rw.method,
                     pk |-> rw.pk, form |-> rw.form, result |-> out.result,
                     txn |-> out.txn, n |-> out.n]
    /\ UNCHANGED <<catalog, cache, req, unrefreshed, pg, ins, rowCount, call,
                   reg>>

DeleteHandle ==
    /\ rw.state = "request"
    /\ rw.op = "delete"
    /\ LET out == table_delete(tbl.key, tbl.rows, rw.method, rw.pk)
       IN  /\ tbl' = [tbl EXCEPT !.rows = out.rows]
           /\ rw' = [state |-> "done", op |-> rw.op, method |-> rw.method,
                     pk |-> rw.pk, form |-> rw.form, result |-> out.result,
                     txn |-> out.txn, n |-> out.n]
    /\ UNCHANGED <<catalog, cache, req, unrefreshed, pg, ins, rowCount, call,
                   reg>>

InitRows ==
    /\ catalog = [cols |-> {"a", "b", "c"}, idx |-> {}]
    /\ cache = catalog
    /\ req = [r \in Req |-> IdleReq]
    /\ unrefreshed = {}
    /\ pg = NoPage
    /\ ins = NoInsert
    /\ rowCount = 0
    /\ call = NoCall
    /\ reg = NoRegistry
    /\ \E key \in KeyKinds : \E rows \in Tables(key) :
         tbl = [key |-> key, rows |-> rows]
    /\ rw = [state |-> "done", op |-> "none", method |-> "GET", pk |-> <<>>,
             form |-> <<>>, result |-> "none", txn |-> "none", n |-> 0]

NextRows == RowRequest \/ UpdateHandle \/ DeleteHandle

SpecRows == InitRows /\ [][NextRows]_vars

\* The rows a token stands for: those whose key columns equal the parts of
\* the token, column by column
TokenRows ==
    LET parts == IF tbl.key = "composite" THEN split(rw.pk, Delimiter)
                 ELSE <<rw.pk>>
    IN  {row \in tbl.rows :
            \A i \in 1..Len(parts) :
                i <= Len(field_names) => row[field_names[i]] = parts[i]}

\* C11: the step that handles an update whose token stands for no row of the
\* table answers "not found", opens no transaction and leaves the table as
\* it was, whatever the method and the form.
C11_UpdateOfMissingRowChangesNothing ==
    [][(/\ rw.state = "request"
        /\ rw'.state = "done"
        /\ rw.op = "update"
        /\ tbl.key # "none"
        /\ rw.pk # Uneditable
        /\ TokenRows = {})
       => (/\ rw'.result = "not_found"
           /\ rw'.txn = "none"
           /\ tbl' = tbl)]_vars

C11_Witness ==
    /\ rw.state = "done"
    /\ rw.op = "update"
    /\ rw.method = "POST"
    /\ rw.form = [k \in {"c"} |-> <<"1">>]
    /\ tbl.key = "composite"
    /\ rw.pk = <<"x", ":", ":", ":", "z">>
    /\ tbl.rows = {[a |-> <<"x">>, b |-> <<"y">>, c |-> <<"0">>]}
    /\ rw.result = "not_found"

\* C12: the step that handles a delete removes at most one row and changes
\* no other row, whatever the token.
C12_DeleteRemovesAtMostOneRow ==
    [][(/\ rw.state = "request"
        /\ rw'.state = "done"
        /\ rw.op = "delete")
       => (/\ tbl'.rows \subseteq tbl.rows
           /\ Cardinality(tbl.rows \ tbl'.rows) <= 1)]_vars

(***************************************************************************)
(* encode_pk and decode_pk on their own                                    *)
(*                                                                         *)
(* table_content renders a token for each row with encode_pk; the token    *)
(* comes back in the URL of the update or delete request and decode_pk     *)
(* turns it into the WHERE expression.                                     *)
(***************************************************************************)
PkValues ==
    {<<>>, <<"x">>, <<"y">>, <<"x", ":">>, <<":", "y">>,
     <<"x", ":", ":", ":", "y">>}
PkRows == [a : PkValues, b : PkValues]
\* Tables of one or two rows with distinct keys (under a single key on a the
\* rows differ in a alone)
PkTables(key) ==
    {{r1, r2} : r1, r2 \in {r \in PkRows : key = "single" => r.b = <<"x">>}}

EncodeKey ==
    /\ call.state = "row"
    /\ call' = [call EXCEPT !.state = "encoded",
                            !.token = encode_pk(call.row, call.key)]
    /\ UNCHANGED <<catalog, cache, req, unrefreshed, pg, ins, rowCount, tbl,
                   rw, reg>>

DecodeKey ==
    /\ call.state = "encoded"
    /\ call' = [call EXCEPT !.state = "decoded",
                            !.expr = decode_pk(call.key, call.token),
                            !.selected =
                                Selected(call.rows,
                                         decode_pk(call.key, call.token))]
    /\ UNCHANGED <<catalog, cache, req, unrefreshed, pg, ins, rowCount, tbl,
                   rw, reg>>

InitPk ==
    /\ catalog = [cols |-> {"a", "b"}, idx |-> {}]
    /\ cache = catalog
    /\ req = [r \in Req |-> IdleReq]
    /\ unrefreshed = {}
    /\ pg = NoPage
    /\ ins = NoInsert
    /\ rowCount = 0
    /\ tbl = NoRows
    /\ rw = NoRowRequest
    /\ reg = NoRegistry
    /\ \E key \in {"single", "composite"} :
         \E rows \in PkTables(key) : \E row \in rows :
           call = [state |-> "row", key |-> key, rows |-> rows, row |-> row,
                   token |-> <<>>, expr |-> <<>>, selected |-> {}]

NextPk == EncodeKey \/ DecodeKey

SpecPk == InitPk /\ [][NextPk]_vars

\* The text holds ":::" somewhere
HoldsDelimiter(text) ==
    \E i \in 1..Len(text) :
        i + 2 <= Len(text) /\ SubSeq(text, i, i + 2) = Delimiter

\* C13: the token of a composite key, one of whose values holds ":::", is
\* the sentinel.
C13_DelimiterInKeyYieldsSentinel ==
    (/\ call.state \in {"encoded", "decoded"}
     /\ call.key = "composite"
     /\ (HoldsDelimiter(call.row.a) \/ HoldsDelimiter(call.row.b)))
    => call.token = Uneditable

\* C14: for a composite key none of whose values holds ":::", the token is
\* the values joined by ":::" in key order, its decoding is the conjunction
\* a = (value of a) and b = (value of b), and that expression selects the
\* encoded row and no other.
C14_TokenRoundTrip ==
    (/\ call.state = "decoded"
     /\ call.key = "composite"
     /\ ~HoldsDelimiter(call.row.a)
     /\ ~HoldsDelimiter(call.row.b))
    => /\ call.token = call.row.a \o Delimiter \o call.row.b
       /\ call.expr = << <<"a", call.row.a>>, <<"b", call.row.b>> >>
       /\ call.selected = {call.row}

(***************************************************************************)
(* minimal_validate_field on its own: one call per behaviour               *)
(***************************************************************************)
FieldTypes ==
    {"IntegerField", "FloatField", "BooleanField", "BlobField", "TextField"}

CodecRaws ==
    {<<>>, <<"n", "u", "l", "l">>, <<" ", "N", "u", "l", "l", " ">>,
     <<"1", "2">>, <<"-", "5">>, <<"1", ".", "5">>, <<"x">>, <<"sup2">>,
     <<"t">>, <<"T">>, <<" ", "t">>, <<"t", "r", "u", "e">>,
     <<"Y", "Q", "=", "=">>, <<"Y", "W", "J", "j">>, <<"Y">>,
     <<"Y", "Q", "=">>, <<"Y", "W", "!", "J", "j">>, <<"!", "!">>}

ValidateCall ==
    /\ call.state = "args"
    /\ LET out == minimal_validate_field(call.field, call.raw)
       IN  call' = [state |-> "returned", field |-> call.field,
                    raw |-> call.raw, value |-> out.value, err |-> out.err]
    /\ UNCHANGED <<catalog, cache, req, unrefreshed, pg, ins, rowCount, tbl,
                   rw, reg>>

InitCodec ==
    /\ catalog = [cols |-> {"a"}, idx |-> {}]
    /\ cache = catalog
    /\ req = [r \in Req |-> IdleReq]
    /\ unrefreshed = {}
    /\ pg = NoPage
    /\ ins = NoInsert
    /\ rowCount = 0
    /\ tbl = NoRows
    /\ rw = NoRowRequest
    /\ reg = NoRegistry
    /\ \E type \in FieldTypes, null \in BOOLEAN, raw \in CodecRaws :
         call = [state |-> "args", field |-> [type |-> type, null |-> null],
                 raw |-> raw]

NextCodec == ValidateCall

SpecCodec == InitCodec /\ [][NextCodec]_vars

\* The raw text is the null literal: "null" in any case, blanks around it
IsNullLiteral(raw) ==
    \E i, j \in 0..Len(raw) :
        /\ i + 4 + j = Len(raw)
        /\ \A k \in 1..i : raw[k] = " "
        /\ \A k \in (i + 5)..Len(raw) : raw[k] = " "
        /\ raw[i + 1] \in {"n", "N"}
        /\ raw[i + 2] \in {"u", "U"}
        /\ raw[i + 3] \in {"l", "L"}
        /\ raw[i + 4] \in {"l", "L"}

\* The value is the typed value of the raw text under the column type
TypedValue(type, raw, value) ==
    IF IsNullLiteral(raw) THEN value = None
    ELSE CASE type = "IntegerField" ->
                /\ value = Str(raw)
                /\ Len(raw) > 0
                /\ \A i \in 1..Len(raw) : raw[i] \in AsciiDigits \cup {"sup2"}
           [] type = "FloatField" -> value = Str(raw) /\ FloatParses(raw)
           [] type = "BooleanField" ->
                /\ value.kind = "bool"
                /\ value.v = (raw \in {<<"1">>, <<"t">>, <<"T">>,
                                       <<"t", "r", "u", "e">>})
           [] type = "BlobField" -> value.kind = "bytes"
           [] OTHER -> value = Str(raw)

CodecMessages ==
    {"Column does not allow NULL values.", "Value is not a number.",
     "Value is not a numeric/real.",
     "Value must be 1, 0, true, false, t or f.",
     "Value must be base64-encoded binary data.",
     "invalid literal for int()"}

\* C15: every call returns a pair: no error and the typed value of the text
\* under the column type, or one of the validator's (non-empty) messages.
C15_CodecReturnsValueOrError ==
    call.state = "returned" =>
        \/ /\ call.err = NoError
           /\ TypedValue(call.field.type, call.raw, call.value)
        \/ /\ call.err \in CodecMessages
           /\ call.err # ""

C15_Witness ==
    /\ call.state = "returned"
    /\ call.field = [type |-> "BlobField", null |-> FALSE]
    /\ call.raw = <<"Y">>
    /\ call.err = "Value must be base64-encoded binary data."

\* Base64 text: digits of the alphabet in groups of four, the last group
\* closed by one or two "=" where it is short
ValidBase64(raw) ==
    /\ Len(raw) % 4 = 0
    /\ \A i \in 1..Len(raw) :
         \/ raw[i] \in Base64Alphabet
         \/ /\ raw[i] = "="
            /\ i >= Len(raw) - 1
            /\ \A k \in i..Len(raw) : raw[k] = "="

\* C16: for a BLOB column, text (other than the null literal) that is not
\* base64 is answered with the base64 error, and base64 text with its
\* decoded bytes.
C16_BlobRequiresValidBase64 ==
    (/\ call.state = "returned"
     /\ call.field.type = "BlobField"
     /\ ~IsNullLiteral(call.raw)) =>
        IF ValidBase64(call.raw)
          THEN /\ call.err = NoError
               /\ call.value =
                    [kind |-> "bytes",
                     v |-> SelectSeq(call.raw, LAMBDA c : c # "=")]
          ELSE call.err = "Value must be base64-encoded binary data."

(***************************************************************************)
(* SqliteDataSet.view_operations                                           *)
(*                                                                         *)
(* The SQL of a trigger is a sequence of lexical items: words and single   *)
(* whitespace characters (" " and "\n").  The regular expression           *)
(*   CREATE\s+TRIGGER.+?\sINSTEAD\s+OF\s+(INSERT|UPDATE|DELETE)\s   (re.I)   *)
(* is matched item by item: a keyword matches a word in any case, \s one   *)
(* whitespace item, and "." any item but "\n" (re.S is not set).           *)
(***************************************************************************)
IsSpace(x) == x \in {" ", "\n"}

\* str.upper() / str.lower() on the words that occur
Upper(w) ==
    CASE w = "create" -> "CREATE" [] w = "trigger" -> "TRIGGER"
      [] w \in {"instead", "Instead"} -> "INSTEAD" [] w = "of" -> "OF"
      [] w = "insert" -> "INSERT" [] w \in {"update", "Update"} -> "UPDATE"
      [] w = "delete" -> "DELETE" [] OTHER -> w
Lower(w) ==
    CASE Upper(w) = "INSERT" -> "insert" [] Upper(w) = "UPDATE" -> "update"
      [] Upper(w) = "DELETE" -> "delete" [] OTHER -> w

Operations == {"INSERT", "UPDATE", "DELETE"}

\* The first index from i on that holds no whitespace (Len + 1 if none)
SkipSpace(sql, i) ==
    CHOOSE j \in i..(Len(sql) + 1) :
        /\ \A k \in i..(j - 1) : IsSpace(sql[k])
        /\ (j = Len(sql) + 1 \/ ~IsSpace(sql[j]))

\* The keyword stands at index i, in any case (re.I)
Keyword(sql, i, word) == i <= Len(sql) /\ Upper(sql[i]) = word

\* CREATE\s+TRIGGER at index i: the index after TRIGGER, or 0
HeadEnd(sql, i) ==
    LET t == SkipSpace(sql, i + 1)
    IN  IF Keyword(sql, i, "CREATE") /\ t > i + 1 /\ Keyword(sql, t, "TRIGGER")
          THEN t + 1 ELSE 0

\* \sINSTEAD\s+OF\s+(INSERT|UPDATE|DELETE)\s at index p: the index of the
\* operation keyword, or 0
ClauseOp(sql, p) ==
    LET q == SkipSpace(sql, p + 2)
        r == SkipSpace(sql, q + 1)
    IN  IF /\ p <= Len(sql) /\ IsSpace(sql[p])
           /\ Keyword(sql, p + 1, "INSTEAD")
           /\ q > p + 2 /\ Keyword(sql, q, "OF")
           /\ r > q + 1 /\ r <= Len(sql) /\ Upper(sql[r]) \in Operations
           /\ r + 1 <= Len(sql) /\ IsSpace(sql[r + 1])
          THEN r ELSE 0

\* The positions at which \sINSTEAD... can follow .+? when the match starts
\* at index i
ClauseStarts(sql, i) ==
    {p \in (HeadEnd(sql, i) + 1)..Len(sql) :
        /\ HeadEnd(sql, i) # 0
        /\ ClauseOp(sql, p) # 0
        /\ \A k \in HeadEnd(sql, i)..(p - 1) : sql[k] # "\n"}

\* rgx.findall(trigger) from index `from` on: the matches are taken from the
\* left, .+? stops at the first position that lets the rest match, and the
\* search goes on behind the match
RECURSIVE findall(_, _)
findall(sql, from) ==
    LET starts == {i \in from..Len(sql) : ClauseStarts(sql, i) # {}}
    IN  IF starts = {} THEN <<>>
        ELSE LET i == CHOOSE i \in starts : \A j \in starts : i <= j
                 p == CHOOSE p \in ClauseStarts(sql, i) :
                         \A q \in ClauseStarts(sql, i) : p <= q
                 r == ClauseOp(sql, p)
             IN  <<sql[r]>> \o findall(sql, r + 2)

Range(seq) == {seq[i] : i \in 1..Len(seq)}

\* A view_operations whose pattern is matched without re.I.
view_operations_CaseSensitive(master, name) ==
    {Lower(op) :
       op \in UNION {Range(findall(t.sql, 1)) :
                       t \in {t \in master :
                                /\ t.tbl_name = name
                                /\ \A i \in 1..Len(t.sql) :
                                     Upper(t.sql[i]) = t.sql[i]}}}

\* view_operations, lines 256-269: master is the trigger rows of
\* sqlite_master
view_operations(master, name) ==
    {Lower(op) :
       op \in UNION {Range(findall(t.sql, 1)) :
                       t \in {t \in master : t.tbl_name = name}}}

\* The head and the tail of the trigger statements
TriggerHead == <<"CREATE", " ", "TRIGGER", " ", "trg">>
TriggerOn == <<" ", "ON", " ", "v", " ", "BEGIN", " ", "END">>

\* sqlite_master rows of type trigger that can exist: INSTEAD OF triggers
\* belong to views, the AFTER trigger to a table
TriggerRows ==
    {[tbl_name |-> "v",
      sql |-> TriggerHead \o <<" ", "INSTEAD", " ", "OF", " ", "INSERT">>
                \o TriggerOn],
     [tbl_name |-> "v",
      sql |-> <<"create", " ", "trigger", " ", "trg", " ", "Instead", " ",
                "of", " ", " ", "Update", " ", "of", " ", "a">> \o TriggerOn],
     [tbl_name |-> "v",
      sql |-> TriggerHead \o <<"\n", "INSTEAD", " ", "OF", " ", "DELETE", "\n",
                               "ON", " ", "v", " ", "BEGIN", " ", "END">>],
     [tbl_name |-> "v",
      sql |-> TriggerHead \o <<"\n", " ", "INSTEAD", " ", "OF", " ", "INSERT">>
                \o TriggerOn],
     [tbl_name |-> "v",
      sql |-> <<"CREATE", " ", "TRIGGER", "\n", "trg", " ", "INSTEAD", " ",
                "OF", " ", "DELETE">> \o TriggerOn],
     [tbl_name |-> "w",
      sql |-> TriggerHead \o <<" ", "INSTEAD", " ", "OF", " ", "UPDATE">>
                \o TriggerOn],
     [tbl_name |-> "t",
      sql |-> TriggerHead \o <<" ", "AFTER", " ", "INSERT", " ", "ON", " ",
                               "t", " ", "BEGIN", " ", "END">>]}

ViewNames == {"v", "w"}

ViewOperationsCall ==
    /\ call.state = "view"
    /\ call' = [state |-> "operations", master |-> call.master,
                name |-> call.name,
                operations |-> view_operations(call.master, call.name)]
    /\ UNCHANGED <<catalog, cache, req, unrefreshed, pg, ins, rowCount, tbl,
                   rw, reg>>

InitView ==
    /\ catalog = [cols |-> {"a"}, idx |-> {}]
    /\ cache = catalog
    /\ req = [r \in Req |-> IdleReq]
    /\ unrefreshed = {}
    /\ pg = NoPage
    /\ ins = NoInsert
    /\ rowCount = 0
    /\ tbl = NoRows
    /\ rw = NoRowRequest
    /\ reg = NoRegistry
    /\ \E master \in SUBSET TriggerRows, name \in ViewNames :
         call = [state |-> "view", master |-> master, name |-> name]

NextView == ViewOperationsCall

SpecView == InitView /\ [][NextView]_vars

\* The SQL holds INSTEAD OF <op>: the three words in a row, in any case,
\* whitespace between them
HoldsInsteadOf(sql, op) ==
    \E i, j, k \in 1..Len(sql) :
        /\ i < j /\ j < k
        /\ Upper(sql[i]) = "INSTEAD" /\ Upper(sql[j]) = "OF" /\ Upper(sql[k]) = op
        /\ j > i + 1 /\ k > j + 1
        /\ \A n \in (i + 1)..(j - 1) : IsSpace(sql[n])
        /\ \A n \in (j + 1)..(k - 1) : IsSpace(sql[n])

\* The triggers of sqlite_master the view owns
Owned == {t \in call.master : t.tbl_name = call.name}

\* The statement keeps CREATE TRIGGER, the trigger's name and whatever else
\* precedes INSTEAD on one line, and exactly one whitespace character (a
\* line break will do) stands right before INSTEAD
HeadOnOneLine(sql) ==
    \E i \in 1..Len(sql) :
        /\ Upper(sql[i]) = "INSTEAD"
        /\ \A n \in 1..(i - 1) : Upper(sql[n]) # "INSTEAD"
        /\ i > 5
        /\ IsSpace(sql[i - 1])
        /\ \A n \in 1..(i - 2) : sql[n] # "\n"
        /\ \E n \in 4..(i - 2) : ~IsSpace(sql[n])

QueryColumns == 2
SqlTexts == {"", "select", "bogus"}
OrderingTexts ==
    {<<>>, <<"1">>, <<"-", "2">>, <<"0">>, <<"9">>, <<"x">>, <<"1", ".", "5">>}
ExportFormats == {"none", "json", "csv"}
QueryTables == {"", "t"}

\* int(text) for an optional sign followed by decimal digits: <<ok, value>>
SignedInt(text) ==
    LET digits == IF Len(text) > 0 /\ text[1] \in {"-", "+"} THEN Tail(text)
                  ELSE text
    IN  IF Len(digits) = 0 \/ IntRaises(digits) THEN <<FALSE, 0>>
        ELSE <<TRUE, IF text[1] = "-" THEN 0 - int(digits) ELSE int(digits)>>

\* The engine rejects the statement _query_view builds: the SQL itself is
\* rejected, or it is wrapped in SELECT * FROM (...) ORDER BY n and n is not
\* the number of one of its columns
QueryFails(sql, ordered, n) ==
    \/ sql = "bogus"
    \/ ordered /\ sql = ""
    \/ ordered /\ (IF n < 0 THEN 0 - n ELSE n) \notin 1..QueryColumns

\* _query_view, lines 314-380
query_view(sql, ordering, export_format, table) ==
    LET ordered == ordering # <<>>
        parsed == SignedInt(ordering)
        qsql_empty == ~ordered /\ sql = ""
        base == [state |-> "answered", sql |-> sql, ordering |-> ordering,
                 export_format |-> export_format, table |-> table,
                 result |-> "rendered", error |-> "None"]
    IN  IF ordered /\ ~parsed[1]
          THEN [base EXCEPT !.result = "uncaught", !.error = "ValueError"]
        ELSE IF qsql_empty THEN base
        ELSE IF export_format # "none"
          THEN IF QueryFails(sql, ordered, parsed[2])
                 THEN [base EXCEPT !.result = "uncaught",
                                   !.error = "OperationalError"]
                 ELSE [base EXCEPT !.result = "exported"]
        ELSE IF QueryFails(sql, ordered, parsed[2])
          THEN [base EXCEPT !.error = "str(exc)"]
        ELSE base

QueryCall ==
    /\ call.state = "query"
    /\ call' = query_view(call.sql, call.ordering, call.export_format,
                          call.table)
    /\ UNCHANGED <<catalog, cache, req, unrefreshed, pg, ins, rowCount, tbl,
                   rw, reg>>

InitQuery ==
    /\ catalog = [cols |-> {"a", "b"}, idx |-> {}]
    /\ cache = catalog
    /\ req = [r \in Req |-> IdleReq]
    /\ unrefreshed = {}
    /\ pg = NoPage
    /\ ins = NoInsert
    /\ rowCount = 0
    /\ tbl = NoRows
    /\ rw = NoRowRequest
    /\ reg = NoRegistry
    /\ \E sql \in SqlTexts, ordering \in OrderingTexts,
          export_format \in ExportFormats, table \in QueryTables :
         call = [state |-> "query", sql |-> sql, ordering |-> ordering,
                 export_format |-> export_format, table |-> table]

NextQuery == QueryCall

SpecQuery == InitQuery /\ [][NextQuery]_vars

\* The request asks for a query that cannot be prepared or run: the ordering
\* is no number, or the engine rejects the statement
QueryCannotRun ==
    \/ /\ call.ordering # <<>>
       /\ \/ \E i \in 1..Len(call.ordering) :
                call.ordering[i] \notin AsciiDigits \cup {"-"}
          \/ call.sql # "select"
          \/ call.ordering \in {<<"0">>, <<"9">>}
    \/ call.sql = "bogus"

\* C18: every query request is answered by the handler; when the query
\* cannot be prepared or run the answer carries an error text.
C18_QueryFailuresAreCaptured ==
    call.state = "answered" =>
        /\ call.result # "uncaught"
        /\ (QueryCannotRun => call.error # "None")

(***************************************************************************)
(* The equality filter of table_content, next to table_insert and          *)
(* table_update                                                            *)
(*                                                                         *)
(* The browsed table is the table of table_insert: key "id", INTEGER NOT   *)
(* NULL "n", nullable BLOB "v".                                            *)
(***************************************************************************)
\* model._meta.columns of the browsed table: the key is an AutoField, which
\* is an IntegerField
FilterField(k) ==
    IF k = "id" THEN [type |-> "IntegerField", null |-> FALSE]
    ELSE InsertField(k)

\* col_dict of table_content: every live column
filter_col_dict == {"id", "n", "v"}

\* table_content, lines 781-798: each non-empty form value of a known
\* column is validated; the first error is raised as RuntimeError
table_content_filter(method, form) ==
    LET keys == {k \in DOMAIN form \cap filter_col_dict : form[k] # <<>>}
        failing == {k \in keys :
                      minimal_validate_field(FilterField(k), form[k]).err
                        # NoError}
    IN  IF method # "POST"
          THEN [result |-> "rendered", errors |-> <<>>, example |-> {}]
        ELSE IF failing # {}
          THEN [result |-> "uncaught", errors |-> <<>>, example |-> keys]
        ELSE [result |-> "rendered", errors |-> <<>>, example |-> keys]

RowOperations == {"filter", "insert", "update"}

\* One row operation is served: the handler's outcome and the errors it
\* hands to the template
RowOperationCall ==
    /\ call.state = "form"
    /\ LET out ==
             IF call.op = "filter"
               THEN table_content_filter(call.method, call.form)
             ELSE IF call.op = "insert"
               THEN table_insert(call.method, call.form, 0)
             ELSE table_update("single",
                               {[a |-> <<"x">>, b |-> <<"x">>, c |-> <<"0">>]},
                               call.method, <<"x">>, call.form)
       IN  call' = [state |-> "handled", op |-> call.op,
                    method |-> call.method, form |-> call.form,
                    result |-> out.result, errors |-> out.errors]
    /\ UNCHANGED <<catalog, cache, req, unrefreshed, pg, ins, rowCount, tbl,
                   rw, reg>>

InitRowOperation ==
    /\ catalog = [cols |-> {"id", "n", "v"}, idx |-> {}]
    /\ cache = catalog
    /\ req = [r \in Req |-> IdleReq]
    /\ unrefreshed = {}
    /\ pg = NoPage
    /\ ins = NoInsert
    /\ rowCount = 0
    /\ tbl = NoRows
    /\ rw = NoRowRequest
    /\ reg = NoRegistry
    /\ \E op \in RowOperations, m \in Methods :
         \E f \in IF op = "update" THEN UpdateForms ELSE Forms :
           call = [state |-> "form", op |-> op, method |-> m, form |-> f]

NextRowOperation == RowOperationCall

SpecRowOperation == InitRowOperation /\ [][NextRowOperation]_vars

\* The submitted values the operation validates and the validator rejects
RejectedValues ==
    IF call.op = "update"
      THEN {k \in DOMAIN call.form \cap {"c"} :
              minimal_validate_field(UpdateField(k), call.form[k]).err
                # NoError}
    ELSE IF call.op = "insert" THEN FailingColumns(call.form)
    ELSE {k \in DOMAIN call.form :
            /\ call.form[k] # <<>>
            /\ minimal_validate_field(FilterField(k), call.form[k]).err
                 # NoError}

\* C19: a POST of a row operation with a value the validator rejects is
\* answered normally, with a message for each rejected field.
C19_ValidationFailuresAreReported ==
    (/\ call.state = "handled"
     /\ call.method = "POST"
     /\ RejectedValues # {})
    => /\ call.result # "uncaught"
       /\ DOMAIN call.errors = RejectedValues

(***************************************************************************)
(* all_open_datasets and open_datasets_lock                                *)
(*                                                                         *)
(* One thread runs initialize_app; request threads run the before_request  *)
(* hook _connect_db, a handler and the teardown hook _close_db once        *)
(* _dataset is set.  A thread is in reg.inuse from the step that starts    *)
(* an operation on the list to the step that ends it.  The database keeps  *)
(* one connection per thread (reg.conn).                                   *)
(***************************************************************************)
Main == "main"
Servers == {"q1", "q2"}
DataSetId == "ds"

\* list.remove(x) of the first occurrence
RemoveFirst(list, x) ==
    LET i == CHOOSE i \in 1..Len(list) :
                 list[i] = x /\ \A j \in 1..(i - 1) : list[j] # x
    IN  SubSeq(list, 1, i - 1) \o SubSeq(list, i + 1, Len(list))

\* initialize_app, lines 1527-1543: the database object and _dataset are
\* made; only the read-write branch goes on to register the dataset
InitAppDataset ==
    /\ reg.pc[Main] = "start"
    /\ reg' = [reg EXCEPT !.pc[Main] = IF reg.read_only THEN "close"
                                       ELSE "lock"]
    /\ UNCHANGED <<catalog, cache, req, unrefreshed, pg, ins, rowCount, tbl,
                   rw, call>>

\* line 1544: with open_datasets_lock
InitAppLock ==
    /\ reg.pc[Main] = "lock"
    /\ reg.lock = "free"
    /\ reg' = [reg EXCEPT !.pc[Main] = "append", !.lock = Main,
                          !.inuse = reg.inuse \cup {Main}]
    /\ UNCHANGED <<catalog, cache, req, unrefreshed, pg, ins, rowCount, tbl,
                   rw, call>>

\* line 1545: all_open_datasets.append(_dataset), and the lock is released
InitAppAppend ==
    /\ reg.pc[Main] = "append"
    /\ reg' = [reg EXCEPT !.pc[Main] = "close", !.lock = "free",
                          !.registry = Append(reg.registry, DataSetId),
                          !.inuse = reg.inuse \ {Main}]
    /\ UNCHANGED <<catalog, cache, req, unrefreshed, pg, ins, rowCount, tbl,
                   rw, call>>

\* line 1554: _dataset.close()
InitAppClose ==
    /\ reg.pc[Main] = "close"
    /\ reg' = [reg EXCEPT !.pc[Main] = "remove"]
    /\ UNCHANGED <<catalog, cache, req, unrefreshed, pg, ins, rowCount, tbl,
                   rw, call>>

\* line 1555: all_open_datasets.remove(_dataset) starts; no lock is taken
InitAppRemoveStart ==
    /\ reg.pc[Main] = "remove"
    /\ reg' = [reg EXCEPT !.pc[Main] = "removing",
                          !.inuse = reg.inuse \cup {Main}]
    /\ UNCHANGED <<catalog, cache, req, unrefreshed, pg, ins, rowCount, tbl,
                   rw, call>>

\* line 1555 ends: the dataset is taken off the list, or list.remove raises
\* ValueError because it is not on it
InitAppRemoveEnd ==
    /\ reg.pc[Main] = "removing"
    /\ IF \E i \in 1..Len(reg.registry) : reg.registry[i] = DataSetId
         THEN reg' = [reg EXCEPT !.pc[Main] = "returned",
                                 !.registry = RemoveFirst(reg.registry,
                                                          DataSetId),
                                 !.inuse = reg.inuse \ {Main}]
         ELSE reg' = [reg EXCEPT !.pc[Main] = "ValueError",
                                 !.inuse = reg.inuse \ {Main}]
    /\ UNCHANGED <<catalog, cache, req, unrefreshed, pg, ins, rowCount, tbl,
                   rw, call>>

\* _connect_db, lines 1357-1359
ConnectDb(q) ==
    /\ reg.pc[q] = "idle"
    /\ reg.pc[Main] # "start"
    /\ reg' = [reg EXCEPT !.pc[q] = "handler", !.conn[q] = TRUE]
    /\ UNCHANGED <<catalog, cache, req, unrefreshed, pg, ins, rowCount, tbl,
                   rw, call>>

\* The view function runs and returns
HandlerReturns(q) ==
    /\ reg.pc[q] = "handler"
    /\ reg' = [reg EXCEPT !.pc[q] = "teardown"]
    /\ UNCHANGED <<catalog, cache, req, unrefreshed, pg, ins, rowCount, tbl,
                   rw, call>>

\* _close_db, line 1372: with open_datasets_lock; the for loop starts
CloseDbLock(q) ==
    /\ reg.pc[q] = "teardown"
    /\ reg.lock = "free"
    /\ reg' = [reg EXCEPT !.pc[q] = "iterating", !.lock = q,
                          !.next[q] = 1, !.inuse = reg.inuse \cup {q}]
    /\ UNCHANGED <<catalog, cache, req, unrefreshed, pg, ins, rowCount, tbl,
                   rw, call>>

\* _close_db, lines 1373-1375: the next dataset of the list is closed if
\* this thread's connection is open
CloseDbVisit(q) ==
    /\ reg.pc[q] = "iterating"
    /\ reg.next[q] <= Len(reg.registry)
    /\ reg' = [reg EXCEPT !.next[q] = reg.next[q] + 1, !.conn[q] = FALSE]
    /\ UNCHANGED <<catalog, cache, req, unrefreshed, pg, ins, rowCount, tbl,
                   rw, call>>

\* _close_db: the list is exhausted, the lock released, the request over
CloseDbRelease(q) ==
    /\ reg.pc[q] = "iterating"
    /\ reg.next[q] > Len(reg.registry)
    /\ reg' = [reg EXCEPT !.pc[q] = "idle", !.lock = "free",
                          !.inuse = reg.inuse \ {q}]
    /\ UNCHANGED <<catalog, cache, req, unrefreshed, pg, ins, rowCount, tbl,
                   rw, call>>

InitRegistry ==
    /\ catalog = [cols |-> {"a"}, idx |-> {}]
    /\ cache = catalog
    /\ req = [r \in Req |-> IdleReq]
    /\ unrefreshed = {}
    /\ pg = NoPage
    /\ ins = NoInsert
    /\ rowCount = 0
    /\ tbl = NoRows
    /\ rw = NoRowRequest
    /\ call = NoCall
    /\ \E read_only \in BOOLEAN :
         reg = [read_only |-> read_only, registry |-> <<>>, lock |-> "free",
                inuse |-> {},
                pc |-> [t \in Servers \cup {Main} |->
                          IF t = Main THEN "start" ELSE "idle"],
                next |-> [q \in Servers |-> 1],
                conn |-> [q \in Servers |-> FALSE]]

NextRegistry ==
    \/ InitAppDataset
    \/ InitAppLock
    \/ InitAppAppend
    \/ InitAppClose
    \/ InitAppRemoveStart
    \/ InitAppRemoveEnd
    \/ \E q \in Servers :
         \/ ConnectDb(q)
         \/ HandlerReturns(q)
         \/ CloseDbLock(q)
         \/ CloseDbVisit(q)
         \/ CloseDbRelease(q)

SpecRegistry == InitRegistry /\ [][NextRegistry]_vars

\* C20: a thread that is inside an operation on the registry holds the
\* registry lock (so at most one thread is inside one).
C20_RegistryAccessUnderLock ==
    \A t \in reg.inuse : reg.lock = t

\* C22: initialize_app returns normally in both modes, read_only or not: it
\* never ends in an exception.
C22_InitializeAppReturns ==
    reg.pc[Main] # "ValueError"

\* C23: once initialize_app has returned, a request whose before-request
\* hook opens the connection finds the dataset on the registry (so that its
\* teardown hook, which closes what is on the registry, closes it).
C23_OpenConnectionIsRegistered ==
    [][\A q \in Servers :
         (/\ reg.pc[Main] = "returned"
          /\ reg.pc[q] = "idle"
          /\ reg'.pc[q] = "handler"
          /\ reg'.conn[q])
         => \E i \in 1..Len(reg'.registry) : reg'.registry[i] = DataSetId]_vars

(***************************************************************************)
(* The table-scoped routes: @require_table and the method test of each     *)
(* handler                                                                 *)
(*                                                                         *)
(* The database is seen as its list of tables and views and two counters:  *)
(* the DDL and the DML statements it has carried out.  `params` says       *)
(* whether the request data (request.args of a GET, request.form of a      *)
(* POST) names a change the handler accepts and the engine carries out.    *)
(***************************************************************************)
MaxStatements == 2

Endpoints ==
    {"structure", "add-column", "drop-column", "rename-column", "add-index",
     "drop-index", "drop-trigger", "content", "insert", "update", "delete",
     "query", "export", "import", "drop"}

\* methods= of the route; a route without it takes GET only
RouteMethods(endpoint) ==
    IF endpoint \in {"structure", "query"} THEN {"GET"} ELSE {"GET", "POST"}

\* The handlers whose POST branch runs migrate(...), DROP ... or drop_table()
DdlEndpoints ==
    {"add-column", "drop-column", "rename-column", "add-index", "drop-trigger",
     "drop"}
\* The handlers whose POST branch runs INSERT, UPDATE, DELETE or thaw()
DmlEndpoints == {"insert", "update", "delete", "import"}

RequestTables == {"t", "v", "zz"}
ParamKinds == {"valid", "invalid"}

\* A decorator that lets every table name through.
require_table_Open(table, tables) == TRUE

\* require_table, lines 388-395: the view function runs iff the name is in
\* get_dataset(file).tables
require_table(table, tables) == table \in tables

\* A method test that every request passes.
is_post_Always(method) == TRUE

\* request.method == "POST", the test each mutating handler makes
is_post(method) == method = "POST"

\* One request to a table-scoped route, from routing to the response
table_route(endpoint, method, table, params, db) ==
    LET base == [state |-> "response", endpoint |-> endpoint,
                 method |-> method, table |-> table, params |-> params,
                 before |-> db, db |-> db, body_ran |-> FALSE,
                 result |-> "rendered"]
        ran == [base EXCEPT !.body_ran = TRUE]
    IN  IF method \notin RouteMethods(endpoint)
          THEN [base EXCEPT !.result = "405"]
        ELSE IF ~require_table(table, db.tables)
          THEN [base EXCEPT !.result = "404"]
        ELSE IF ~is_post(method) \/ endpoint \notin DdlEndpoints \cup
                                                     DmlEndpoints \cup
                                                     {"drop-index"}
          THEN ran
        ELSE IF params = "invalid" THEN [ran EXCEPT !.result = "rejected"]
        ELSE IF endpoint = "drop-index"
          THEN [ran EXCEPT !.result = "exec_failed"]
        ELSE IF endpoint = "drop"
          THEN [ran EXCEPT !.result = "success",
                           !.db = [db EXCEPT !.tables = db.tables \ {table},
                                             !.ddl = db.ddl + 1]]
        ELSE IF endpoint \in DdlEndpoints
          THEN [ran EXCEPT !.result = "success",
                           !.db = [db EXCEPT !.ddl = db.ddl + 1]]
        ELSE [ran EXCEPT !.result = "success",
                         !.db = [db EXCEPT !.dml = db.dml + 1]]

RouteRequest ==
    /\ call.state = "response"
    /\ call.db.ddl < MaxStatements
    /\ call.db.dml < MaxStatements
    /\ \E endpoint \in Endpoints, method \in Methods, table \in RequestTables,
          params \in ParamKinds :
         call' = [state |-> "request", endpoint |-> endpoint,
                  method |-> method, table |-> table, params |-> params,
                  db |-> call.db]
    /\ UNCHANGED <<catalog, cache, req, unrefreshed, pg, ins, rowCount, tbl,
                   rw, reg>>

RouteHandle ==
    /\ call.state = "request"
    /\ call' = table_route(call.endpoint, call.method, call.table, call.params,
                           call.db)
    /\ UNCHANGED <<catalog, cache, req, unrefreshed, pg, ins, rowCount, tbl,
                   rw, reg>>

InitRoute ==
    /\ catalog = [cols |-> {"a"}, idx |-> {}]
    /\ cache = catalog
    /\ req = [r \in Req |-> IdleReq]
    /\ unrefreshed = {}
    /\ pg = NoPage
    /\ ins = NoInsert
    /\ rowCount = 0
    /\ tbl = NoRows
    /\ rw = NoRowRequest
    /\ reg = NoRegistry
    /\ \E endpoint \in Endpoints, method \in Methods, table \in RequestTables,
          params \in ParamKinds :
         call = [state |-> "request", endpoint |-> endpoint,
                 method |-> method, table |-> table, params |-> params,
                 db |-> [tables |-> {"t", "v"}, ddl |-> 0, dml |-> 0]]

NextRoute == RouteRequest \/ RouteHandle

SpecRoute == InitRoute /\ [][NextRoute]_vars

\* C21: a request to a table-scoped route that names a table or view the
\* dataset does not list is answered 404 (or 405 where the route does not
\* take the method) before the view function runs, and the database is as
\* before.
C21_UnknownTableAbortedBeforeBody ==
    (call.state = "response" /\ call.table \notin call.before.tables) =>
        /\ call.result \in {"404", "405"}
        /\ (call.method \in RouteMethods(call.endpoint)
              => call.result = "404")
        /\ ~call.body_ran
        /\ call.db = call.before

C21_Witness ==
    /\ call.state = "response"
    /\ call.endpoint = "drop"
    /\ call.method = "POST"
    /\ call.table = "t"
    /\ call.params = "valid"
    /\ call.before.tables = {"v"}
    /\ call.result = "404"

\* The endpoints claim C25 lists
MutatingEndpoints ==
    {"add-column", "drop-column", "rename-column", "add-index", "drop-index",
     "drop-trigger", "insert", "update", "delete", "import", "drop"}

\* C25: a GET request to a mutating endpoint, whatever its query
\* parameters, carries out no DDL and no DML: the tables and both statement
\* counts are as before the request.
C25_GetNeverMutates ==
    (/\ call.state = "response"
     /\ call.method = "GET"
     /\ call.endpoint \in MutatingEndpoints) => call.db = call.before

C25_Witness ==
    /\ call.state = "response"
    /\ call.method = "GET"
    /\ call.endpoint = "drop"
    /\ call.table = "t"
    /\ call.params = "valid"
    /\ call.body_ran
    /\ call.result = "rendered"
    /\ call.db = call.before
    /\ call.before.ddl = 1

(***************************************************************************)
(* check_password, the before_request hook of install_auth_handler         *)
(*                                                                         *)
(* A request path is the sequence of its lexical pieces: "/" and the       *)
(* words between.  A first segment that begins with another word is two    *)
(* pieces, as in /faviconx/ == <<"/", "favicon", "x", "/">>.               *)
(***************************************************************************)
FirstSegments ==
    {<<"login">>, <<"static">>, <<"static", "x">>, <<"favicon">>,
     <<"favicon", "x">>, <<"db">>}
RestSegments ==
    {<<>>, <<"query">>, <<"t">>, <<"t", "insert">>, <<"t", "drop">>}

RECURSIVE Slashed(_)
\* Every segment followed by "/"
Slashed(segments) ==
    IF segments = <<>> THEN <<>>
    ELSE <<Head(segments), "/">> \o Slashed(Tail(segments))

request_path(first, rest) == <<"/">> \o first \o <<"/">> \o Slashed(rest)

\* str.startswith with a tuple of prefixes
startswith(s, prefixes) ==
    \E prefix \in prefixes :
        /\ Len(prefix) <= Len(s)
        /\ SubSeq(s, 1, Len(prefix)) = prefix

\* The URL map: the view function the path is routed to.  <file> takes any
\* one segment; /static/<path:filename> needs a non-empty filename.
url_map(first, rest) ==
    IF first = <<"login">> /\ rest = <<>> THEN "login"
    ELSE IF first = <<"static">> /\ rest # <<>> THEN "static"
    ELSE IF rest = <<>> THEN "index"
    ELSE IF rest = <<"query">> THEN "generic_query"
    ELSE IF rest = <<"t">> THEN "table_content"
    ELSE IF rest = <<"t", "insert">> THEN "table_insert"
    ELSE "drop_table"

\* The view functions that read or write get_dataset(file)
DatabaseViews ==
    {"index", "generic_query", "table_content", "table_insert", "drop_table"}

\* check_password, lines 1499-1508: TRUE when the request is redirected to
\* the login page
check_password(authorized, path) ==
    /\ ~authorized
    /\ path # <<"/", "login", "/">>
    /\ ~startswith(path, {<<"/", "static", "/">>, <<"/", "favicon">>})

\* One request through the before_request hooks and the view function
full_dispatch_request(password, authorized, first, rest) ==
    LET path == request_path(first, rest)
        view == url_map(first, rest)
        redirected == password /\ check_password(authorized, path)
    IN  [state |-> "response", password |-> password,
         authorized |-> authorized, first |-> first, rest |-> rest,
         view |-> view,
         result |-> IF redirected THEN "redirect" ELSE view,
         db_access |-> ~redirected /\ view \in DatabaseViews]

AuthRequest ==
    /\ call.state = "response"
    /\ \E password \in BOOLEAN, authorized \in BOOLEAN,
          first \in FirstSegments, rest \in RestSegments :
         call' = [state |-> "request", password |-> password,
                  authorized |-> authorized, first |-> first, rest |-> rest]
    /\ UNCHANGED <<catalog, cache, req, unrefreshed, pg, ins, rowCount, tbl,
                   rw, reg>>

AuthDispatch ==
    /\ call.state = "request"
    /\ call' = full_dispatch_request(call.password, call.authorized,
                                     call.first, call.rest)
    /\ UNCHANGED <<catalog, cache, req, unrefreshed, pg, ins, rowCount, tbl,
                   rw, reg>>

InitAuth ==
    /\ catalog = [cols |-> {"a"}, idx |-> {}]
    /\ cache = catalog
    /\ req = [r \in Req |-> IdleReq]
    /\ unrefreshed = {}
    /\ pg = NoPage
    /\ ins = NoInsert
    /\ rowCount = 0
    /\ tbl = NoRows
    /\ rw = NoRowRequest
    /\ reg = NoRegistry
    /\ \E password \in BOOLEAN, authorized \in BOOLEAN,
          first \in FirstSegments, rest \in RestSegments :
         call = [state |-> "request", password |-> password,
                 authorized |-> authorized, first |-> first, rest |-> rest]

NextAuth == AuthRequest \/ AuthDispatch

SpecAuth == InitAuth /\ [][NextAuth]_vars

\* C24: with a password configured, a request without an authorized
\* session whose path is routed to a view function that uses the database
\* is redirected to the login page and the database is not accessed,
\* whatever its <file> segment.
C24_UnauthorizedNeverReachesDatabase ==
    (/\ call.state = "response"
     /\ call.password
     /\ ~call.authorized
     /\ call.view \in DatabaseViews)
    => (call.result = "redirect" /\ ~call.db_access)

(***************************************************************************)
(* table_update and table_delete under concurrent requests                 *)
(*                                                                         *)
(* Each request thread has its own connection.  The row is fetched by one  *)
(* statement (model.get / select ... get) and changed by a later one       *)
(* inside dataset.transaction(); statements of other requests can run in   *)
(* between.  All requests here are POSTs.                                  *)
(***************************************************************************)
RaceTokens == {<<"x">>, <<"y">>, <<"x", ":", ":", ":", "x">>}
RaceForms == {<<>>, [k \in {"c"} |-> <<"1">>]}
IdleRow == [state |-> "idle"]

\* The request arrives: /<table>/update/<pk>/ or /<table>/delete/<pk>/
RaceBegin(q) ==
    /\ rw[q].state = "idle"
    /\ \E op \in {"update", "delete"}, pk \in RaceTokens, f \in RaceForms :
         /\ op = "delete" => f = <<>>
         /\ rw' = [rw EXCEPT ![q] = [state |-> "request", op |-> op,
                                     pk |-> pk, form |-> f]]
    /\ UNCHANGED <<catalog, cache, req, unrefreshed, pg, ins, rowCount, tbl,
                   call, reg>>

\* The handler up to the DML statement: key resolution, the fetch of the
\* row and (update) the validation of the form.  It ends the request
\* unless all of it passed.
RaceLookup(q) ==
    /\ rw[q].state = "request"
    /\ LET out == IF rw[q].op = "update"
                    THEN table_update(tbl.key, tbl.rows, "POST", rw[q].pk,
                                      rw[q].form)
                    ELSE table_delete(tbl.key, tbl.rows, "POST", rw[q].pk)
       IN  rw' = [rw EXCEPT ![q] =
                    IF out.result = "success"
                      THEN [rw[q] EXCEPT !.state = "fetched"]
                      ELSE [state |-> "done", op |-> rw[q].op,
                            pk |-> rw[q].pk, form |-> rw[q].form,
                            result |-> out.result, n |-> 0]]
    /\ UNCHANGED <<catalog, cache, req, unrefreshed, pg, ins, rowCount, tbl,
                   call, reg>>

\* with dataset.transaction(): n = model.update(update).where(expr).execute()
\* or model.delete().where(expr).execute(), on the rows as they are now,
\* and the success flash that follows whatever n is
RaceExecute(q) ==
    /\ rw[q].state = "fetched"
    /\ LET hit == Selected(tbl.rows, decode_pk(tbl.key, rw[q].pk))
           value == minimal_validate_field(UpdateField("c"), <<"1">>).value.v
       IN  /\ tbl' = [tbl EXCEPT !.rows =
                        IF rw[q].op = "delete" THEN tbl.rows \ hit
                        ELSE (tbl.rows \ hit) \cup
                               {[row EXCEPT !.c = value] : row \in hit}]
           /\ rw' = [rw EXCEPT ![q] =
                       [state |-> "done", op |-> rw[q].op, pk |-> rw[q].pk,
                        form |-> rw[q].form, result |-> "success",
                        n |-> Cardinality(hit)]]
    /\ UNCHANGED <<catalog, cache, req, unrefreshed, pg, ins, rowCount, call,
                   reg>>

\* The response is sent; the thread takes the next request
RaceEnd(q) ==
    /\ rw[q].state = "done"
    /\ rw' = [rw EXCEPT ![q] = IdleRow]
    /\ UNCHANGED <<catalog, cache, req, unrefreshed, pg, ins, rowCount, tbl,
                   call, reg>>

InitRace ==
    /\ catalog = [cols |-> {"a", "b", "c"}, idx |-> {}]
    /\ cache = catalog
    /\ req = [r \in Req |-> IdleReq]
    /\ unrefreshed = {}
    /\ pg = NoPage
    /\ ins = NoInsert
    /\ rowCount = 0
    /\ call = NoCall
    /\ reg = NoRegistry
    /\ \E key \in {"single", "composite"} : \E rows \in Tables(key) :
         tbl = [key |-> key, rows |-> rows]
    /\ rw = [q \in Servers |-> IdleRow]

NextRace ==
    \E q \in Servers :
        \/ RaceBegin(q)
        \/ RaceLookup(q)
        \/ RaceExecute(q)
        \/ RaceEnd(q)

SpecRace == InitRace /\ [][NextRace]_vars

\* C26: under every interleaving, an update or delete that reports success
\* affected at least one row.
C26_SuccessAffectsARow ==
    \A q \in Servers :
        (rw[q].state = "done" /\ rw[q].result = "success") => rw[q].n >= 1

====
